---- MODULE Spec2Model ----
(***************************************************************************)
(* Model of the schedule-monitoring service: the schedules/job_logs tables *)
(* (models.py), the SchedulerManager and execute_task (scheduler.py), the  *)
(* HTTP handlers that drive them (api/schedule.py) and the process         *)
(* lifecycle (main.py).                                                    *)
(*                                                                         *)
(* The scheduler object is an APScheduler BackgroundScheduler with a       *)
(* durable SQLAlchemy job store; its behaviour (cron next-fire             *)
(* computation, coalescing, misfire grace, max_instances) is modelled at   *)
(* the call sites that configure it.                                       *)
(*                                                                         *)
(* Conventions: time is in minutes since Monday 2018-01-01 00:00           *)
(* Asia/Jakarta.  A Python value that the code only tests for truthiness   *)
(* is modelled by its falsy representative: day_of_week None or "" is the  *)
(* empty sequence, day_of_month None or 0 is 0, media_channel_id None is   *)
(* 0.  A day_of_week string is modelled already split at the commas.       *)
(* The job store and the schedules table are reliable; only the job_logs   *)
(* writes and the statements of execute_task can raise.                    *)
(***************************************************************************)
EXTENDS Integers, Sequences, FiniteSets, TLC

VARIABLES
    schedules,   \* table schedules: id -> row (models.py Schedule)
    next_id,     \* next value of the schedules.id serial
    job_logs,    \* table job_logs, in insertion order (models.py JobLog)
    jobs,        \* apscheduler_jobs job store: schedule id -> job
    app,         \* process phase: "down","loading","serving","noscheduler","exited"
    loading,     \* rows load_schedules still has to add
    instances,   \* executions of execute_task in flight
    now,         \* wall clock, minutes
    requests,    \* handler calls in progress, where a handler is followed step by step
    last         \* what the latest step did (observation only)

vars == <<schedules, next_id, job_logs, jobs, app, loading, instances, now, requests, last>>

(* ------------------------------ bounds --------------------------------- *)
MaxSchedules == 1      \* rows ever created
MaxTicks == 3          \* clock steps
MaxLogs == 3           \* rows of job_logs
TickMinutes == 30      \* length of one short clock step
StartMinute == 15      \* clock reading when the model starts (00:15)

(* --------------------------- program constants ------------------------- *)
MisfireGraceMinutes == 60     \* misfire_grace_time=3600 seconds
MaxInstances == 1             \* APScheduler job default, not overridden
MinutesPerDay == 1440
MinutesPerHour == 60

(* ------------------------------ calendar ------------------------------- *)
MonthLengths == <<31, 28, 31, 30, 31, 30, 31, 31, 30, 31, 30, 31>>

Weekday(day) == day % 7   \* 0 = Monday, as APScheduler numbers weekdays

RECURSIVE DayOfMonthFrom(_, _)
DayOfMonthFrom(day, month) ==
    IF day < MonthLengths[month] THEN day + 1
    ELSE DayOfMonthFrom(day - MonthLengths[month], (month % 12) + 1)

DayOfMonth(day) == DayOfMonthFrom(day, 1)

AllWeekdays == 0..6
WeekdayNumber == [mon |-> 0, tue |-> 1, wed |-> 2, thu |-> 3, fri |-> 4, sat |-> 5, sun |-> 6]
WeekdayNames == {"mon", "tue", "wed", "thu", "fri", "sat", "sun"}

\* d.strip().lower() on the tags the model uses
StripLower(tag) ==
    CASE tag = " Tue" -> "tue"
      [] OTHER -> tag

(* ------------------------- cron trigger (library) ---------------------- *)
\* a CronTrigger: minute, hour, day_of_week set, day (0 = every day of month)
CronTrigger(minute, hour, dow, day) ==
    [minute |-> minute, hour |-> hour, day_of_week |-> dow, day |-> day]

\* mutant: in a month shorter than the day asked for, the last day matches
DayMatchesRolled(trigger, day) ==
    /\ Weekday(day) \in trigger.day_of_week
    /\ \/ trigger.day = 0
       \/ DayOfMonth(day) = trigger.day
       \/ DayOfMonth(day) < trigger.day /\ DayOfMonth(day + 1) = 1

\* whether the trigger fires on this day: the weekday is one of the
\* trigger's and the day of month is the trigger's; a month without that day
\* has no match
DayMatches(trigger, day) ==
    /\ Weekday(day) \in trigger.day_of_week
    /\ trigger.day = 0 \/ DayOfMonth(day) = trigger.day

FireTimeOn(trigger, day) ==
    day * MinutesPerDay + trigger.hour * MinutesPerHour + trigger.minute

HorizonDays == 62   \* every valid day of month recurs within two months

\* first fire time >= t
FirstFireAtOrAfter(trigger, t) ==
    LET d0 == t \div MinutesPerDay
        cand == {d \in d0..(d0 + HorizonDays) :
                    DayMatches(trigger, d) /\ FireTimeOn(trigger, d) >= t}
        d == CHOOSE x \in cand : \A y \in cand : x <= y
    IN FireTimeOn(trigger, d)

\* trigger.get_next_fire_time(previous_fire_time, now)
\* (start is min(now, previous + 1), moved past previous when it equals it)
GetNextFireTime(trigger, previous, t) ==
    IF previous < 0 THEN FirstFireAtOrAfter(trigger, t)
    ELSE LET start_date == IF t < previous + 1 THEN t ELSE previous + 1
         IN FirstFireAtOrAfter(trigger,
                IF start_date = previous THEN start_date + 1 ELSE start_date)

\* mutant: no coalescing, the run time handled is the job's next_run_time
FirstRunTime(trigger, run_time, t) == run_time

\* last fire time in next_run_time..t (job._get_run_times with coalesce)
RECURSIVE LastRunTime(_, _, _)
LastRunTime(trigger, run_time, t) ==
    LET nxt == FirstFireAtOrAfter(trigger, run_time + 1)
    IN IF nxt <= t THEN LastRunTime(trigger, nxt, t) ELSE run_time

(* ------------------------------ rows ----------------------------------- *)
Row(schedule_type, hour, minute, day_of_week, day_of_month, is_active, media_channel_id) ==
    [schedule_type |-> schedule_type, hour |-> hour, minute |-> minute,
     day_of_week |-> day_of_week, day_of_month |-> day_of_month,
     is_active |-> is_active, media_channel_id |-> media_channel_id]

JobLog(schedule_id, status, message) ==
    [schedule_id |-> schedule_id, status |-> status, message |-> message]

MediaChannels == {1}   \* ids present in the media channel table

(* --------------------------- execute_task ------------------------------ *)
\* What can raise inside execute_task: the statements before the log is
\* saved (session, media channel query), the commit of the success log, the
\* statements after that commit (print, db.close), the commit of the error log.
\* The first statement that raises ends the try block, and the commit of the
\* error log is only reached when the try block raised.
Faults ==
    {f \in [task : BOOLEAN, commit : BOOLEAN, after : BOOLEAN, errcommit : BOOLEAN] :
        /\ Cardinality({x \in {"task", "commit", "after"} : f[x]}) <= 1
        /\ f.errcommit => (f.task \/ f.commit \/ f.after)}

TaskMessage(media_channel_id) ==
    IF media_channel_id # 0
    THEN IF media_channel_id \in MediaChannels THEN "scraping" ELSE "channel_not_found"
    ELSE "print"

\* the try block, lines 13-54: the rows it committed and whether it raised
TryBlock(schedule_id, media_channel_id, f) ==
    IF f.task THEN [entries |-> <<>>, raised |-> TRUE]
    ELSE IF f.commit THEN [entries |-> <<>>, raised |-> TRUE]
    ELSE [entries |-> <<JobLog(schedule_id, "success", TaskMessage(media_channel_id))>>,
          raised |-> f.after]

\* mutant: the error log is saved without the inner try/except
ExceptBlockUnguarded(schedule_id, f) ==
    IF f.errcommit THEN [entries |-> <<>>, raised |-> TRUE]
    ELSE [entries |-> <<JobLog(schedule_id, "error", "error")>>, raised |-> FALSE]

\* the except block, lines 56-74
ExceptBlock(schedule_id, f) ==
    IF f.errcommit THEN [entries |-> <<>>, raised |-> FALSE]
    ELSE [entries |-> <<JobLog(schedule_id, "error", "error")>>, raised |-> FALSE]

\* execute_task: the rows appended to job_logs, whether the task part raised,
\* and whether an exception leaves the function
execute_task(schedule_id, media_channel_id, f) ==
    LET t == TryBlock(schedule_id, media_channel_id, f)
        e == ExceptBlock(schedule_id, f)
    IN IF t.raised
       THEN [entries |-> t.entries \o e.entries, task_raised |-> f.task, propagated |-> e.raised]
       ELSE [entries |-> t.entries, task_raised |-> FALSE, propagated |-> FALSE]

(* ------------------------- SchedulerManager ---------------------------- *)
Job(trigger, next_run_time, schedule_id, media_channel_id) ==
    [trigger |-> trigger, next_run_time |-> next_run_time,
     args |-> [schedule_id |-> schedule_id, media_channel_id |-> media_channel_id]]

\* scheduler.remove_job
RemoveJob(js, id) == [i \in DOMAIN js \ {id} |-> js[i]]

\* scheduler.add_job(..., replace_existing=True)
AddJob(js, id, job) == [i \in DOMAIN js \cup {id} |-> IF i = id THEN job ELSE js[i]]

\* day_map.get(d.strip().lower(), 'mon')
DayMapGet(tag) == IF StripLower(tag) \in WeekdayNames THEN StripLower(tag) ELSE "mon"

DayList(day_of_week) == {WeekdayNumber[DayMapGet(day_of_week[k])] : k \in 1..Len(day_of_week)}

\* the trigger add_schedule builds, lines 141-183; CronTrigger raises
\* ValueError for a day of month outside 1..31
BuildTrigger(s) ==
    IF s.schedule_type = "daily"
    THEN [raised |-> FALSE, trigger |-> CronTrigger(s.minute, s.hour, AllWeekdays, 0)]
    ELSE IF s.schedule_type = "weekly" /\ s.day_of_week # <<>>
    THEN [raised |-> FALSE,
          trigger |-> CronTrigger(s.minute, s.hour, DayList(s.day_of_week), 0)]
    ELSE IF s.schedule_type = "monthly" /\ s.day_of_month # 0
    THEN [raised |-> s.day_of_month \notin 1..31,
          trigger |-> CronTrigger(s.minute, s.hour, AllWeekdays, s.day_of_month)]
    ELSE [raised |-> FALSE, trigger |-> CronTrigger(s.minute, s.hour, AllWeekdays, 0)]

\* mutant: the next run time of the new job is computed from the time the
\* model starts at, not from the time of the call
add_schedule_stale(js, id, s, t) ==
    LET removed == IF id \in DOMAIN js THEN RemoveJob(js, id) ELSE js
        b == BuildTrigger(s)
    IN IF b.raised THEN removed
       ELSE AddJob(removed, id,
                   Job(b.trigger, GetNextFireTime(b.trigger, -1, StartMinute), id,
                       s.media_channel_id))

\* add_schedule: the job store after the call
add_schedule(js, id, s, t) ==
    LET removed == IF id \in DOMAIN js THEN RemoveJob(js, id) ELSE js
        b == BuildTrigger(s)
    IN IF b.raised THEN removed
       ELSE AddJob(removed, id,
                   Job(b.trigger, GetNextFireTime(b.trigger, -1, t), id, s.media_channel_id))

\* mutant: the job is looked up but not removed
remove_schedule_keeps(js, id) == js

\* remove_schedule: the job store after the call
remove_schedule(js, id) == IF id \in DOMAIN js THEN RemoveJob(js, id) ELSE js

\* get_all_jobs
get_all_jobs(js) == DOMAIN js

(* ------------------------------ inputs --------------------------------- *)
\* request bodies of POST /api/schedules
Payloads ==
    { Row("daily", 1, 0, <<>>, 0, TRUE, 0),
      Row("daily", 0, 0, <<>>, 0, FALSE, 1),
      Row("weekly", 1, 0, <<"mon", " Tue">>, 0, TRUE, 0),
      Row("weekly", 1, 0, <<"xyz">>, 0, TRUE, 0),
      Row("weekly", 1, 0, <<>>, 0, TRUE, 0),
      Row("monthly", 1, 0, <<>>, 1, TRUE, 0),
      Row("monthly", 1, 0, <<>>, 0, TRUE, 0),
      Row("monthly", 1, 0, <<>>, 32, TRUE, 0),
      Row("hourly", 1, 0, <<>>, 0, TRUE, 2) }

\* recurrence fields an update of a row can set
Updates ==
    { [schedule_type |-> "monthly", day_of_week |-> <<>>, day_of_month |-> 32] }

Ids == 1..MaxSchedules

Ticks(t) == ((t - StartMinute) \div MinutesPerDay)
            + (((t - StartMinute) % MinutesPerDay) \div TickMinutes)

SchedulerRunning == app \in {"loading", "serving"}    \* scheduler.running
Serving == app \in {"serving", "noscheduler"}         \* requests are handled

\* rows in id order
RECURSIVE RowsFrom(_, _)
RowsFrom(tbl, i) ==
    IF \A j \in DOMAIN tbl : j < i THEN <<>>
    ELSE (IF i \in DOMAIN tbl THEN <<[id |-> i, row |-> tbl[i]]>> ELSE <<>>)
         \o RowsFrom(tbl, i + 1)

ActiveRows(tbl) == LET T(r) == r.row.is_active IN SelectSeq(RowsFrom(tbl, 1), T)

\* what a call of add_schedule did
AddObserved(caller, id, s, js, t) ==
    [op |-> "add_schedule", caller |-> caller, id |-> id, schedule |-> s,
     before |-> IF id \in DOMAIN js THEN <<js[id]>> ELSE <<>>,
     rejected |-> BuildTrigger(s).raised]

(* ------------------------------ state ---------------------------------- *)
Init ==
    /\ schedules = <<>>
    /\ next_id = 1
    /\ job_logs = <<>>
    /\ jobs = <<>>
    /\ app = "down"
    /\ loading = <<>>
    /\ instances = {}
    /\ now = StartMinute
    /\ requests = {}
    /\ last = [op |-> "init"]

(* --------------------------- process lifecycle ------------------------- *)
\* main.py init_scheduler -> SchedulerManager.start: scheduler.start(), then
\* load_schedules reads the active rows; a failed start leaves app.scheduler None
start(ok) ==
    /\ app = "down"
    /\ IF ok
       THEN /\ loading' = ActiveRows(schedules)
            /\ app' = IF ActiveRows(schedules) = <<>> THEN "serving" ELSE "loading"
       ELSE /\ loading' = <<>>
            /\ app' = "noscheduler"
    /\ last' = [op |-> "start", ok |-> ok]
    /\ UNCHANGED <<schedules, next_id, job_logs, jobs, instances, now, requests>>

\* mutant: a schedule that cannot be armed stops the scheduler
load_schedules_stops ==
    /\ app = "loading"
    /\ loading # <<>>
    /\ LET r == Head(loading)
       IN /\ jobs' = add_schedule(jobs, r.id, r.row, now)
          /\ last' = AddObserved("load_schedules", r.id, r.row, jobs, now)
          /\ loading' = IF BuildTrigger(r.row).raised THEN <<>> ELSE Tail(loading)
          /\ app' = IF BuildTrigger(r.row).raised THEN "noscheduler"
                    ELSE IF Tail(loading) = <<>> THEN "serving" ELSE "loading"
    /\ UNCHANGED <<schedules, next_id, job_logs, instances, now, requests>>

\* mutant: a schedule that cannot be armed ends the loop
load_schedules_abort ==
    /\ app = "loading"
    /\ loading # <<>>
    /\ LET r == Head(loading)
       IN /\ jobs' = add_schedule(jobs, r.id, r.row, now)
          /\ last' = AddObserved("load_schedules", r.id, r.row, jobs, now)
          /\ loading' = IF BuildTrigger(r.row).raised THEN <<>> ELSE Tail(loading)
          /\ app' = IF BuildTrigger(r.row).raised \/ Tail(loading) = <<>>
                    THEN "serving" ELSE "loading"
    /\ UNCHANGED <<schedules, next_id, job_logs, instances, now, requests>>

\* load_schedules, one iteration of the loop of lines 118-119
load_schedules ==
    /\ app = "loading"
    /\ loading # <<>>
    /\ LET r == Head(loading)
       IN /\ jobs' = add_schedule(jobs, r.id, r.row, now)
          /\ last' = AddObserved("load_schedules", r.id, r.row, jobs, now)
    /\ loading' = Tail(loading)
    /\ app' = IF Tail(loading) = <<>> THEN "serving" ELSE "loading"
    /\ UNCHANGED <<schedules, next_id, job_logs, instances, now, requests>>

\* mutant: scheduler.shutdown is called without the test of scheduler.running
\* and outside the try; the library raises when the scheduler is not running
scheduler_shutdown_unguarded(running) == [running |-> FALSE, raised |-> ~running]

\* SchedulerManager.shutdown: the scheduler's running flag after the call and
\* whether an exception leaves the method
scheduler_shutdown(running) ==
    IF running THEN [running |-> FALSE, raised |-> FALSE]
    ELSE [running |-> running, raised |-> FALSE]

\* the atexit hook shutdown_scheduler: it calls SchedulerManager.shutdown when
\* a manager is attached; scheduler.shutdown(wait=False) does not wait for the
\* executions in flight.  In phase "exited" the step is a further call of
\* SchedulerManager.shutdown on the stopped manager.
shutdown ==
    /\ Serving \/ app = "exited"
    /\ app' = "exited"
    /\ last' = [op |-> "shutdown", called |-> app # "noscheduler",
                was_running |-> SchedulerRunning,
                running |-> IF app = "noscheduler" THEN FALSE
                            ELSE scheduler_shutdown(SchedulerRunning).running,
                raised |-> IF app = "noscheduler" THEN FALSE
                           ELSE scheduler_shutdown(SchedulerRunning).raised]
    /\ UNCHANGED <<schedules, next_id, job_logs, jobs, loading, instances, now, requests>>

\* the process has ended and is launched again; both databases persist
Restart ==
    /\ app = "exited"
    /\ instances = {}
    /\ app' = "down"
    /\ last' = [op |-> "restart"]
    /\ UNCHANGED <<schedules, next_id, job_logs, jobs, loading, instances, now, requests>>

\* time passes; a clock step is far longer than the start-up loop takes
Tick(d) ==
    /\ app # "loading"
    /\ Ticks(now) < MaxTicks
    /\ now' = now + d
    /\ last' = [op |-> "tick"]
    /\ UNCHANGED <<schedules, next_id, job_logs, jobs, app, loading, instances, requests>>

(* ------------------------------ handlers ------------------------------- *)
\* POST /api/schedules
create_schedule(p) ==
    /\ Serving
    /\ next_id <= MaxSchedules
    /\ Len(job_logs) < MaxLogs
    /\ schedules' = [i \in DOMAIN schedules \cup {next_id} |->
                        IF i = next_id THEN p ELSE schedules[i]]
    /\ next_id' = next_id + 1
    /\ IF app = "serving"
       THEN /\ jobs' = add_schedule(jobs, next_id, p, now)
            /\ last' = AddObserved("create_schedule", next_id, p, jobs, now)
       ELSE /\ jobs' = jobs
            /\ last' = [op |-> "create_schedule", id |-> next_id]
    /\ job_logs' = Append(job_logs, JobLog(next_id, "success", "created"))
    /\ UNCHANGED <<app, loading, instances, now, requests>>

\* DELETE /api/schedules/<id>; the rows of job_logs go with the schedule
delete_schedule(id) ==
    /\ Serving
    /\ id \in DOMAIN schedules
    /\ jobs' = IF app = "serving" THEN remove_schedule(jobs, id) ELSE jobs
    /\ schedules' = [i \in DOMAIN schedules \ {id} |-> schedules[i]]
    /\ job_logs' = LET Keep(l) == l.schedule_id # id IN SelectSeq(job_logs, Keep)
    /\ last' = [op |-> "delete_schedule", id |-> id]
    /\ UNCHANGED <<next_id, app, loading, instances, now, requests>>

\* PATCH /api/schedules/<id>/toggle
toggle_schedule(id) ==
    /\ Serving
    /\ id \in DOMAIN schedules
    /\ Len(job_logs) < MaxLogs
    /\ LET new_status == ~schedules[id].is_active
           s == [schedules[id] EXCEPT !.is_active = new_status]
       IN /\ schedules' = [schedules EXCEPT ![id] = s]
          /\ IF app = "serving"
             THEN IF new_status
                  THEN /\ jobs' = add_schedule(jobs, id, s, now)
                       /\ last' = AddObserved("toggle_schedule", id, s, jobs, now)
                  ELSE /\ jobs' = remove_schedule(jobs, id)
                       /\ last' = [op |-> "remove_schedule", caller |-> "toggle_schedule",
                                   id |-> id, before |-> DOMAIN jobs]
             ELSE /\ jobs' = jobs
                  /\ last' = [op |-> "toggle_schedule", id |-> id]
          /\ job_logs' = Append(job_logs,
                JobLog(id, "success", IF new_status THEN "activated" ELSE "deactivated"))
    /\ UNCHANGED <<next_id, app, loading, instances, now, requests>>

NoFireTime == 0 - 1

\* a running call of execute_task: its arguments, who made it, and the fire
\* time it runs for (run-now: none)
Execution(schedule_id, media_channel_id, origin, at) ==
    [schedule_id |-> schedule_id, media_channel_id |-> media_channel_id,
     origin |-> origin, at |-> at]

\* mutant: run-now asks the in-flight guard and refuses with 409 when the
\* clock has an execution of the schedule running
run_schedule_now_guarded(id) ==
    /\ Serving
    /\ IF id \in DOMAIN schedules
       THEN /\ instances' = IF \E e \in instances : e.schedule_id = id /\ e.origin = "clock"
                            THEN instances
                            ELSE instances \cup
                                {Execution(id, schedules[id].media_channel_id, "run_now", NoFireTime)}
            /\ last' = [op |-> "run_schedule_now", id |-> id, found |-> TRUE,
                        is_active |-> schedules[id].is_active,
                        response |-> IF \E e \in instances : e.schedule_id = id /\ e.origin = "clock"
                                     THEN 409 ELSE 200]
       ELSE /\ instances' = instances
            /\ last' = [op |-> "run_schedule_now", id |-> id, found |-> FALSE,
                        is_active |-> FALSE, response |-> 404]
    /\ UNCHANGED <<schedules, next_id, job_logs, jobs, app, loading, now, requests>>

\* POST /api/schedules/run-now/<id>, up to the call of execute_task
run_schedule_now(id) ==
    /\ Serving
    /\ IF id \in DOMAIN schedules
       THEN /\ instances' = instances \cup
                    {Execution(id, schedules[id].media_channel_id, "run_now", NoFireTime)}
            /\ last' = [op |-> "run_schedule_now", id |-> id, found |-> TRUE,
                        is_active |-> schedules[id].is_active, response |-> 200]
       ELSE /\ instances' = instances
            /\ last' = [op |-> "run_schedule_now", id |-> id, found |-> FALSE,
                        is_active |-> FALSE, response |-> 404]
    /\ UNCHANGED <<schedules, next_id, job_logs, jobs, app, loading, now, requests>>

\* an insert into job_logs for a schedule that is gone violates the foreign key
Effective(f, schedule_id) ==
    IF schedule_id \in DOMAIN schedules THEN f
    ELSE [f EXCEPT !.commit = TRUE, !.errcommit = TRUE]

\* execute_task runs to its end, for the clock or for run-now
execute(e, f) ==
    /\ e \in instances
    /\ app # "down"
    /\ LET r == execute_task(e.schedule_id, e.media_channel_id, Effective(f, e.schedule_id))
       IN /\ Len(job_logs) + Len(r.entries) <= MaxLogs
          /\ job_logs' = job_logs \o r.entries
          /\ last' = [op |-> "execute_task", id |-> e.schedule_id, origin |-> e.origin,
                      entries |-> r.entries,
                      faulted |-> LET g == Effective(f, e.schedule_id)
                                  IN g.task \/ g.commit \/ g.after,
                      task_raised |-> r.task_raised, propagated |-> r.propagated]
    /\ instances' = instances \ {e}
    /\ UNCHANGED <<schedules, next_id, jobs, app, loading, now, requests>>

\* the schedules force_run_midnight selects, lines 635-666
ForceRunSelection(sid) ==
    IF sid # 0
    THEN LET T(r) == r.id = sid /\ r.row.is_active IN SelectSeq(RowsFrom(schedules, 1), T)
    ELSE LET T(r) == r.row.is_active /\ r.row.hour = 0 /\ r.row.minute = 0
         IN SelectSeq(RowsFrom(schedules, 1), T)

\* the results force_run_midnight reports as 'success': those whose call of
\* execute_task raised nothing
RECURSIVE ForceRunSuccessful(_, _)
ForceRunSuccessful(rows, f) ==
    IF rows = <<>> THEN 0
    ELSE (IF execute_task(Head(rows).id, Head(rows).row.media_channel_id, f).propagated
          THEN 0 ELSE 1)
         + ForceRunSuccessful(Tail(rows), f)

RECURSIVE ForceRunEntries(_, _)
ForceRunEntries(rows, f) ==
    IF rows = <<>> THEN <<>>
    ELSE execute_task(Head(rows).id, Head(rows).row.media_channel_id, f).entries
         \o ForceRunEntries(Tail(rows), f)

\* POST /api/schedules/midnight/force-run, schedule_id sid (0: none given)
force_run_midnight(sid, f) ==
    /\ Serving
    /\ LET rows == ForceRunSelection(sid)
           entries == ForceRunEntries(rows, f)
       IN /\ Len(job_logs) + Len(entries) <= MaxLogs
          /\ job_logs' = job_logs \o entries
          /\ last' = [op |-> "force_run_midnight", id |-> sid,
                      response |-> IF sid # 0 /\ rows = <<>> THEN 404 ELSE 200,
                      executed |-> Len(rows), entries |-> entries,
                      successful |-> ForceRunSuccessful(rows, f)]
    /\ UNCHANGED <<schedules, next_id, jobs, app, loading, instances, now, requests>>

\* a row of schedules is updated in the store (dtos ScheduleUpdate); no
\* handler reconciles the scheduler with it
ScheduleUpdate(id, u) ==
    /\ id \in DOMAIN schedules
    /\ LET s == [schedules[id] EXCEPT !.schedule_type = u.schedule_type,
                                      !.day_of_week = u.day_of_week,
                                      !.day_of_month = u.day_of_month]
       IN /\ s # schedules[id]
          /\ schedules' = [schedules EXCEPT ![id] = s]
    /\ last' = [op |-> "update", id |-> id]
    /\ UNCHANGED <<next_id, job_logs, jobs, app, loading, instances, now, requests>>

(* ----------------------------- clock thread ---------------------------- *)
\* mutant: a job counts as due one minute before its next_run_time
DueJobsEarly == {i \in DOMAIN jobs : jobs[i].next_run_time <= now + 1}

\* the jobs whose next_run_time has come
DueJobs == {i \in DOMAIN jobs : jobs[i].next_run_time <= now}

\* mutant: every execution of the schedule counts, run-now included
AnyInstances(id) == {e \in instances : e.schedule_id = id}

\* the executions of a schedule that the scheduler's executor is running
ClockInstances(id) == {e \in instances : e.schedule_id = id /\ e.origin = "clock"}

\* mutant: the executor does not count running instances
CanSubmitUnlimited(id) == TRUE

\* executor.submit_job: refuses a job that has max_instances running
CanSubmit(id) == Cardinality(ClockInstances(id)) < MaxInstances

\* mutant: a run time is started however late it is
OutcomeNoGrace(id) ==
    IF ~CanSubmit(id) THEN "max_instances" ELSE "run"

\* how one due job is handled: refused, missed (past the grace) or run
Outcome(id) ==
    LET run_time == LastRunTime(jobs[id].trigger, jobs[id].next_run_time, now)
    IN IF ~CanSubmit(id) THEN "max_instances"
       ELSE IF now - run_time > MisfireGraceMinutes THEN "missed"
       ELSE "run"

\* one pass of the scheduler thread over the due jobs (_process_jobs)
process_jobs ==
    /\ SchedulerRunning
    /\ DueJobs # {}
    /\ instances' = instances \cup
           {Execution(i, jobs[i].args.media_channel_id, "clock",
                      LastRunTime(jobs[i].trigger, jobs[i].next_run_time, now)) :
              i \in {j \in DueJobs : Outcome(j) = "run"}}
    /\ jobs' = [i \in DOMAIN jobs |->
                  IF i \in DueJobs
                  THEN [jobs[i] EXCEPT !.next_run_time =
                          GetNextFireTime(jobs[i].trigger,
                              LastRunTime(jobs[i].trigger, jobs[i].next_run_time, now), now)]
                  ELSE jobs[i]]
    /\ last' = [op |-> "process_jobs", outcome |-> [i \in DueJobs |-> Outcome(i)],
                due |-> [i \in DueJobs |-> jobs[i].next_run_time]]
    /\ UNCHANGED <<schedules, next_id, job_logs, app, loading, now, requests>>

(* --------------------------- specification ----------------------------- *)
Next ==
    \/ \E ok \in BOOLEAN : start(ok)
    \/ load_schedules
    \/ shutdown
    \/ Restart
    \/ \E d \in {TickMinutes, MinutesPerDay} : Tick(d)
    \/ \E p \in Payloads : create_schedule(p)
    \/ \E id \in Ids : delete_schedule(id)
    \/ \E id \in Ids : toggle_schedule(id)
    \/ \E id \in Ids : run_schedule_now(id)
    \/ \E e \in instances, f \in Faults : execute(e, f)
    \/ \E sid \in {0} \cup Ids, f \in Faults : force_run_midnight(sid, f)
    \/ \E id \in Ids, u \in Updates : ScheduleUpdate(id, u)
    \/ process_jobs

Spec == Init /\ [][Next]_vars

(* ---------------- one schedule followed through the calendar ----------- *)
DailyDays == 3         \* days a daily schedule is followed
WeeklyDays == 15       \* days a weekly schedule is followed
MonthlyDays == 151     \* days a monthly schedule is followed (to the end of May)

\* the day up to which the clock is followed
LastDay ==
    IF \E i \in DOMAIN schedules : schedules[i].schedule_type = "monthly" THEN MonthlyDays
    ELSE IF \E i \in DOMAIN schedules : schedules[i].schedule_type = "weekly" THEN WeeklyDays
    ELSE DailyDays

\* valid request bodies, one schedule of each kind with several selectors
CalendarPayloads ==
    { Row("daily", 9, 0, <<>>, 0, TRUE, 0),
      Row("daily", 0, 0, <<>>, 0, TRUE, 0),
      Row("daily", 23, 59, <<>>, 0, TRUE, 0),
      Row("weekly", 9, 0, <<"mon", " Tue">>, 0, TRUE, 0),
      Row("weekly", 9, 0, <<"sun">>, 0, TRUE, 0),
      Row("weekly", 0, 0, <<"wed", "fri", "sat">>, 0, TRUE, 0),
      Row("monthly", 9, 0, <<>>, 31, TRUE, 0),
      Row("monthly", 9, 0, <<>>, 30, TRUE, 0),
      Row("monthly", 0, 0, <<>>, 29, TRUE, 0),
      Row("monthly", 9, 0, <<>>, 1, TRUE, 0) }

\* the state after start and one create_schedule at StartMinute
CalendarInit ==
    \E p \in CalendarPayloads :
        /\ schedules = <<p>>
        /\ next_id = 2
        /\ job_logs = <<JobLog(1, "success", "created")>>
        /\ jobs = add_schedule(<<>>, 1, p, StartMinute)
        /\ app = "serving"
        /\ loading = <<>>
        /\ instances = {}
        /\ now = StartMinute
        /\ requests = {}
        /\ last = AddObserved("create_schedule", 1, p, <<>>, StartMinute)

\* the clock comes to the minute before a job's next_run_time, to the
\* next_run_time itself, or past it by more than the misfire grace
ClockReaches(t) ==
    /\ t > now
    /\ t <= LastDay * MinutesPerDay
    /\ now' = t
    /\ last' = [op |-> "tick"]
    /\ UNCHANGED <<schedules, next_id, job_logs, jobs, app, loading, instances, requests>>

CalendarNext ==
    \/ \E i \in DOMAIN jobs,
          late \in {0 - 1, 0, MisfireGraceMinutes + TickMinutes, MinutesPerDay + TickMinutes} :
          ClockReaches(jobs[i].next_run_time + late)
    \/ process_jobs
    \/ \E e \in instances, f \in Faults : execute(e, f)

CalendarSpec == CalendarInit /\ [][CalendarNext]_vars

(* ------------- start-up re-arming followed step by step --------------- *)
\* add_schedule inside load_schedules, first part (lines 134-139): the job
\* of the schedule is removed; the call is then in progress
load_schedules_remove ==
    /\ app = "loading"
    /\ loading # <<>>
    /\ LET r == Head(loading)
       IN /\ [kind |-> "add_schedule", id |-> r.id] \notin requests
          /\ jobs' = IF r.id \in DOMAIN jobs THEN RemoveJob(jobs, r.id) ELSE jobs
          /\ requests' = requests \cup {[kind |-> "add_schedule", id |-> r.id]}
          /\ last' = [op |-> "remove_job", id |-> r.id, before |-> DOMAIN jobs]
    /\ UNCHANGED <<schedules, next_id, job_logs, app, loading, instances, now>>

\* add_schedule inside load_schedules, second part (lines 141-194): the
\* trigger is built and the job added
load_schedules_add ==
    /\ app = "loading"
    /\ loading # <<>>
    /\ LET r == Head(loading)
       IN /\ [kind |-> "add_schedule", id |-> r.id] \in requests
          /\ jobs' = add_schedule(jobs, r.id, r.row, now)
          /\ requests' = requests \ {[kind |-> "add_schedule", id |-> r.id]}
          /\ last' = AddObserved("load_schedules", r.id, r.row, jobs, now)
    /\ loading' = Tail(loading)
    /\ app' = IF Tail(loading) = <<>> THEN "serving" ELSE "loading"
    /\ UNCHANGED <<schedules, next_id, job_logs, instances, now>>

NoFault == [task |-> FALSE, commit |-> FALSE, after |-> FALSE, errcommit |-> FALSE]

\* the one fire time the clock is taken across: the first of schedule 1
\* after the model starts
FirstOccurrence == FirstFireAtOrAfter(BuildTrigger(schedules[1]).trigger, StartMinute)

\* an earlier run created one valid active schedule at StartMinute and armed
\* it; the process is down
RearmInit ==
    \E p \in CalendarPayloads :
        /\ schedules = <<p>>
        /\ next_id = 2
        /\ job_logs = <<JobLog(1, "success", "created")>>
        /\ jobs = add_schedule(<<>>, 1, p, StartMinute)
        /\ app = "down"
        /\ loading = <<>>
        /\ instances = {}
        /\ now = StartMinute
        /\ requests = {}
        /\ last = [op |-> "restart"]

\* the clock readings are the minute before and the minute after the fire
\* time: the scheduler thread wakes after it, and no two steps share an instant
RearmNext ==
    \/ \E ok \in BOOLEAN : start(ok)
    \/ load_schedules_remove
    \/ load_schedules_add
    \/ \E late \in {0 - 1, 1} : ClockReaches(FirstOccurrence + late)
    \/ process_jobs
    \/ \E e \in instances : execute(e, NoFault)

RearmSpec == RearmInit /\ [][RearmNext]_vars

(* ------------- toggle requests followed step by step ----------------- *)
\* the server handles requests in threads, each with its own session: a
\* toggle is a read, a commit, a scheduler call and a log commit, and the steps
\* of several requests interleave
MaxToggles == 3

ToggleRequests == {q \in requests : q.kind = "toggle"}

\* rows of job_logs written at the end of toggle requests for the schedule
ToggleRows(id) ==
    {k \in DOMAIN job_logs :
        /\ job_logs[k].schedule_id = id
        /\ job_logs[k].message \in {"activated", "deactivated"}}

\* lines 262-268: the row is read and new_status computed from it
toggle_schedule_read(id) ==
    /\ Serving
    /\ id \in DOMAIN schedules
    /\ Cardinality(ToggleRows(id)) + Cardinality(ToggleRequests) < MaxToggles
    /\ LET k == Cardinality(ToggleRows(id)) + Cardinality(ToggleRequests) + 1
           new_status == ~schedules[id].is_active
       IN /\ requests' = requests \cup
                {[kind |-> "toggle", k |-> k, id |-> id, new_status |-> new_status,
                  pc |-> "commit"]}
          /\ last' = [op |-> "toggle_schedule", step |-> "read", k |-> k, id |-> id,
                      new_status |-> new_status]
    /\ UNCHANGED <<schedules, next_id, job_logs, jobs, app, loading, instances, now>>

\* lines 269-270: schedule.is_active = new_status is written and committed
toggle_schedule_commit(q) ==
    /\ q.kind = "toggle"
    /\ q.pc = "commit"
    /\ schedules' = [schedules EXCEPT ![q.id].is_active = q.new_status]
    /\ requests' = (requests \ {q}) \cup {[q EXCEPT !.pc = "scheduler"]}
    /\ last' = [op |-> "toggle_schedule", step |-> "commit", k |-> q.k, id |-> q.id,
                new_status |-> q.new_status]
    /\ UNCHANGED <<next_id, job_logs, jobs, app, loading, instances, now>>

\* lines 273-285: the scheduler is updated from new_status and the row the
\* request holds
toggle_schedule_scheduler(q) ==
    /\ q.kind = "toggle"
    /\ q.pc = "scheduler"
    /\ LET s == [schedules[q.id] EXCEPT !.is_active = q.new_status]
       IN jobs' = IF app = "serving"
                  THEN IF q.new_status
                       THEN add_schedule(jobs, q.id, s, now)
                       ELSE remove_schedule(jobs, q.id)
                  ELSE jobs
    /\ requests' = (requests \ {q}) \cup {[q EXCEPT !.pc = "log"]}
    /\ last' = [op |-> "toggle_schedule", step |-> "scheduler", k |-> q.k, id |-> q.id,
                new_status |-> q.new_status]
    /\ UNCHANGED <<schedules, next_id, job_logs, app, loading, instances, now>>

\* lines 287-300: the log row is committed and the request answered 200
toggle_schedule_log(q) ==
    /\ q.kind = "toggle"
    /\ q.pc = "log"
    /\ job_logs' = Append(job_logs,
            JobLog(q.id, "success", IF q.new_status THEN "activated" ELSE "deactivated"))
    /\ requests' = requests \ {q}
    /\ last' = [op |-> "toggle_schedule", step |-> "log", k |-> q.k, id |-> q.id,
                new_status |-> q.new_status, response |-> 200]
    /\ UNCHANGED <<schedules, next_id, jobs, app, loading, instances, now>>

ToggleNext ==
    \/ \E id \in DOMAIN schedules : toggle_schedule_read(id)
    \/ \E q \in requests : toggle_schedule_commit(q)
    \/ \E q \in requests : toggle_schedule_scheduler(q)
    \/ \E q \in requests : toggle_schedule_log(q)

\* one valid active schedule, created and armed on a running server
ToggleSpec == CalendarInit /\ [][ToggleNext]_vars

(* ------------- requests that end in the handler's except block ------- *)
\* where a request leaves the try block: a check that returns early, or a
\* database write that raises (as the log write of execute_task can)
CreateStages == {"validate", "commit", "log"}
ToggleStages == {"not_found", "commit", "log"}
DeleteStages == {"not_found", "commit"}

\* POST /api/schedules answered 400: a missing field or an unparsable run_time
\* (lines 133-157), the commit of the row raising (170-171), or the commit of
\* the initial log raising after the row is stored and add_schedule called
\* (185-193, then 201-205: rollback of the log only)
create_schedule_error(p, stage) ==
    /\ Serving
    /\ next_id <= MaxSchedules
    /\ IF stage = "log"
       THEN /\ schedules' = [i \in DOMAIN schedules \cup {next_id} |->
                                IF i = next_id THEN p ELSE schedules[i]]
            /\ next_id' = next_id + 1
            /\ jobs' = IF app = "serving" THEN add_schedule(jobs, next_id, p, now) ELSE jobs
       ELSE UNCHANGED <<schedules, next_id, jobs>>
    /\ last' = [op |-> "error_response", handler |-> "create_schedule", stage |-> stage,
                id |-> next_id, response |-> 400]
    /\ UNCHANGED <<job_logs, app, loading, instances, now, requests>>

\* PATCH /api/schedules/<id>/toggle answered 404 (no such row, line 265) or
\* 500: the commit of the flag raising (270), or the commit of the log raising
\* after the flag is stored and the scheduler updated (287-294, then 302-306)
toggle_schedule_error(id, stage) ==
    /\ Serving
    /\ id \in 1..MaxSchedules
    /\ (stage = "not_found") <=> (id \notin DOMAIN schedules)
    /\ IF stage = "log"
       THEN LET new_status == ~schedules[id].is_active
                s == [schedules[id] EXCEPT !.is_active = new_status]
            IN /\ schedules' = [schedules EXCEPT ![id] = s]
               /\ jobs' = IF app = "serving"
                          THEN IF new_status
                               THEN add_schedule(jobs, id, s, now)
                               ELSE remove_schedule(jobs, id)
                          ELSE jobs
       ELSE UNCHANGED <<schedules, jobs>>
    /\ last' = [op |-> "error_response", handler |-> "toggle_schedule", stage |-> stage,
                id |-> id, response |-> IF stage = "not_found" THEN 404 ELSE 500]
    /\ UNCHANGED <<next_id, job_logs, app, loading, instances, now, requests>>

\* DELETE /api/schedules/<id> answered 404 (line 223) or 500: the commit of
\* the delete raising after remove_schedule was called (226-235, then
\* 243-247: the row is back after the rollback, the job is not)
delete_schedule_error(id, stage) ==
    /\ Serving
    /\ id \in 1..MaxSchedules
    /\ (stage = "not_found") <=> (id \notin DOMAIN schedules)
    /\ jobs' = IF stage = "commit" /\ app = "serving" THEN remove_schedule(jobs, id) ELSE jobs
    /\ last' = [op |-> "error_response", handler |-> "delete_schedule", stage |-> stage,
                id |-> id, response |-> IF stage = "not_found" THEN 404 ELSE 500]
    /\ UNCHANGED <<schedules, next_id, job_logs, app, loading, instances, now, requests>>

HandlerNext ==
    \/ \E ok \in BOOLEAN : start(ok)
    \/ \E p \in Payloads : create_schedule(p)
    \/ \E id \in Ids : toggle_schedule(id)
    \/ \E id \in Ids : delete_schedule(id)
    \/ \E p \in Payloads, stage \in CreateStages : create_schedule_error(p, stage)
    \/ \E id \in Ids, stage \in ToggleStages : toggle_schedule_error(id, stage)
    \/ \E id \in Ids, stage \in DeleteStages : delete_schedule_error(id, stage)

HandlerSpec == Init /\ [][HandlerNext]_vars

(* ------------------------- GET /midnight-check ----------------------- *)
\* one schedule was created the day before at StartMinute; it is now
\* StartMinute past midnight. job_logs is in the order of executed_at, so the
\* rows before today's midnight are the first YesterdayLogs rows.
YesterdayLogs == 1

MidnightPayloads ==
    { Row("daily", 0, 0, <<>>, 0, TRUE, 0),
      Row("daily", 0, 0, <<>>, 0, FALSE, 0),
      Row("daily", 1, 0, <<>>, 0, TRUE, 0),
      Row("weekly", 0, 0, <<"tue">>, 0, TRUE, 0) }

\* schedules whose run_time prints as 00:00:00 (lines 522-531)
MidnightSchedules == {i \in DOMAIN schedules : schedules[i].hour = 0 /\ schedules[i].minute = 0}

\* lines 569-572: every row of the schedule with executed_at >= today's midnight
TodayLogs(id) ==
    Cardinality({k \in DOMAIN job_logs : k > YesterdayLogs /\ job_logs[k].schedule_id = id})

\* current_time.hour
CurrentHour == (now % MinutesPerDay) \div MinutesPerHour

\* lines 561-574
ShouldHaveRun(id) ==
    IF schedules[id].is_active /\ schedules[id].schedule_type = "daily"
    THEN TodayLogs(id) = 0 /\ CurrentHour > 0
    ELSE FALSE

check_midnight_schedules ==
    /\ Serving
    /\ last' = [op |-> "check_midnight_schedules", hour |-> CurrentHour,
                midnight_schedules |->
                    [i \in MidnightSchedules |->
                        [is_active |-> schedules[i].is_active,
                         schedule_type |-> schedules[i].schedule_type,
                         should_have_run_today |-> ShouldHaveRun(i),
                         status |-> IF ShouldHaveRun(i) THEN "missed" ELSE "ok"]],
                response |-> 200]
    /\ UNCHANGED <<schedules, next_id, job_logs, jobs, app, loading, instances, now, requests>>

MidnightInit ==
    \E p \in MidnightPayloads, up \in BOOLEAN :
        /\ schedules = <<p>>
        /\ next_id = 2
        /\ job_logs = <<JobLog(1, "success", "created")>>
        /\ jobs = add_schedule(<<>>, 1, p, StartMinute)
        /\ app = IF up THEN "serving" ELSE "down"
        /\ loading = <<>>
        /\ instances = {}
        /\ now = StartMinute + MinutesPerDay
        /\ requests = {}
        /\ last = [op |-> IF up THEN "tick" ELSE "restart"]

MidnightNext ==
    \/ \E ok \in BOOLEAN : start(ok)
    \/ load_schedules
    \/ Tick(TickMinutes)
    \/ process_jobs
    \/ \E e \in instances, f \in Faults : execute(e, f)
    \/ \E id \in Ids : toggle_schedule(id)
    \/ check_midnight_schedules

MidnightSpec == MidnightInit /\ [][MidnightNext]_vars

(* ------------------- start with two schedules in the table ------------ *)
\* the process is down with two rows in schedules, both created at
\* StartMinute: either while the scheduler ran (the job store holds what
\* add_schedule left) or while it had failed to start (empty job store);
\* it is started a day later
StartupInit ==
    \E p1 \in Payloads, p2 \in Payloads, armed \in BOOLEAN :
        /\ schedules = <<p1, p2>>
        /\ next_id = 3
        /\ job_logs = <<JobLog(1, "success", "created"), JobLog(2, "success", "created")>>
        /\ jobs = IF armed
                  THEN add_schedule(add_schedule(<<>>, 1, p1, StartMinute), 2, p2, StartMinute)
                  ELSE <<>>
        /\ app = "down"
        /\ loading = <<>>
        /\ instances = {}
        /\ now = StartMinute + MinutesPerDay
        /\ requests = {}
        /\ last = [op |-> "restart"]

StartupNext ==
    \/ \E ok \in BOOLEAN : start(ok)
    \/ load_schedules
    \/ process_jobs
    \/ \E e \in instances, f \in Faults : execute(e, f)
    \/ \E id \in DOMAIN schedules : run_schedule_now(id)
    \/ shutdown

StartupSpec == StartupInit /\ [][StartupNext]_vars

(* ------------------------------ properties ----------------------------- *)
UnrecognizedTag(s) ==
    /\ s.schedule_type = "weekly"
    /\ \E k \in 1..Len(s.day_of_week) : StripLower(s.day_of_week[k]) \notin WeekdayNames

MissingSelector(s) ==
    \/ s.schedule_type = "weekly" /\ s.day_of_week = <<>>
    \/ s.schedule_type = "monthly" /\ s.day_of_month = 0
    \/ s.schedule_type \notin {"daily", "weekly", "monthly"}

\* C1: in every reachable state no schedule whose is_active is false has a
\* job in the job store, a schedule created with is_active=false included.
C1_InactiveHasNoTrigger ==
    \A i \in DOMAIN schedules : ~schedules[i].is_active => i \notin DOMAIN jobs

\* C2: every call of execute_task appends exactly one row to job_logs, and
\* that row has status error when the task raised.
C2_ExactlyOneLogPerDispatch ==
    last.op = "execute_task" =>
        /\ Len(last.entries) = 1
        /\ last.task_raised => last.entries[1].status = "error"

\* C3: execute_task returns normally on every path: no exception, a failed
\* write of the error log included, leaves it.
C3_ExecuteTaskReturns ==
    last.op = "execute_task" => ~last.propagated

C3_Witness ==
    /\ last.op = "execute_task"
    /\ last.task_raised
    /\ last.entries = <<>>
    /\ ~last.propagated

\* C4: run-now on an id that is unknown, or whose schedule is inactive,
\* answers 404 and starts no execution of the task.
C4_RunNowInactiveNotFound ==
    (last.op = "run_schedule_now" /\ ~(last.found /\ last.is_active)) =>
        /\ last.response = 404
        /\ \A e \in instances : ~(e.schedule_id = last.id /\ e.origin = "run_now")

\* C5: add_schedule on a weekly schedule with an unrecognized weekday tag is
\* rejected and leaves no job for it; the tag is not replaced by a default day.
C5_UnrecognizedTagRejected ==
    (last.op = "add_schedule" /\ UnrecognizedTag(last.schedule)) =>
        /\ last.rejected
        /\ last.id \notin DOMAIN jobs

\* C6: when add_schedule rejects a schedule because no trigger can be built
\* for it, the job armed for that id before the call is still there, unchanged.
C6_RejectKeepsPreviousTrigger ==
    (last.op = "add_schedule" /\ last.rejected /\ last.before # <<>>) =>
        /\ last.id \in DOMAIN jobs
        /\ jobs[last.id] = last.before[1]

\* C7: add_schedule on a schedule that lacks the selector of its kind, or
\* whose kind is unknown, arms no job for it (and so no daily job).
C7_MissingSelectorArmsNothing ==
    (last.op = "add_schedule" /\ MissingSelector(last.schedule)) =>
        last.id \notin DOMAIN jobs

\* C8: add_schedule called again for an unchanged active schedule (here: by
\* load_schedules, for a job armed with the same trigger and arguments whose
\* next_run_time is not past the misfire grace) leaves the job with the
\* next_run_time it had, so no due occurrence is skipped.
C8_ReconcileIdempotent ==
    (/\ last.op = "add_schedule"
     /\ last.caller = "load_schedules"
     /\ ~last.rejected
     /\ last.before # <<>>
     /\ now - last.before[1].next_run_time <= MisfireGraceMinutes
     /\ last.before[1].trigger = BuildTrigger(last.schedule).trigger
     /\ last.before[1].args.media_channel_id = last.schedule.media_channel_id) =>
        /\ last.id \in DOMAIN jobs
        /\ jobs[last.id].next_run_time = last.before[1].next_run_time

\* C9: after toggle_schedule deactivated a schedule and removed it from the
\* scheduler, the schedule has no job and get_all_jobs does not list it.
C9_DeactivatedNotArmed ==
    (last.op = "remove_schedule" /\ last.caller = "toggle_schedule") =>
        /\ ~schedules[last.id].is_active
        /\ last.id \notin DOMAIN jobs
        /\ last.id \notin get_all_jobs(jobs)
        /\ Cardinality(get_all_jobs(jobs)) = Cardinality(last.before \ {last.id})

C9_Witness ==
    /\ last.op = "remove_schedule"
    /\ last.id \in last.before
    /\ last.id \notin get_all_jobs(jobs)

\* C10: at most one execution started by the clock is in flight per schedule;
\* a job that comes due while its previous run is in flight is not started.
C10_OneClockInstancePerSchedule ==
    /\ \A id \in Ids : Cardinality(ClockInstances(id)) <= MaxInstances
    /\ last.op = "process_jobs" =>
          \A i \in DOMAIN last.outcome :
             last.outcome[i] = "max_instances" =>
                \A e \in ClockInstances(i) : e.at < last.due[i]

C10_Witness ==
    /\ last.op = "process_jobs"
    /\ \E i \in DOMAIN last.outcome :
          /\ last.outcome[i] = "max_instances"
          /\ ClockInstances(i) # {}

\* C11: run-now starts an execution whether or not the clock has one of the
\* same schedule in flight, so both can be in flight together; an execution
\* that ends without a fault while the other one is still in flight appends
\* one row of its own to job_logs.
C11_RunNowRacesClock ==
    /\ (last.op = "run_schedule_now" /\ last.found) =>
          /\ last.response = 200
          /\ \E e \in instances : e.schedule_id = last.id /\ e.origin = "run_now"
    /\ (/\ last.op = "execute_task"
        /\ ~last.faulted
        /\ \E e \in instances : e.schedule_id = last.id /\ e.origin # last.origin) =>
          /\ Len(last.entries) = 1
          /\ last.entries[1].schedule_id = last.id
          /\ job_logs[Len(job_logs)] = last.entries[1]

C11_Witness ==
    /\ last.op = "execute_task"
    /\ last.origin = "clock"
    /\ Len(last.entries) = 1
    /\ \E e \in instances : e.schedule_id = last.id /\ e.origin = "run_now"

\* C12: when the scheduler thread handles a job whose next_run_time is more
\* than the misfire grace (60 minutes) in the past, no execution is started
\* for that run time, job_logs is left as it is, and the job's next_run_time
\* becomes a fire time strictly after now.
C12_MisfireSkipped ==
    [][process_jobs =>
         \A i \in DueJobs :
            now - jobs[i].next_run_time > MisfireGraceMinutes =>
               /\ \A e \in instances' \ instances :
                     ~(e.schedule_id = i /\ e.at = jobs[i].next_run_time)
               /\ job_logs' = job_logs
               /\ i \in DOMAIN jobs'
               /\ jobs'[i].next_run_time > now']_vars

C12_Witness ==
    /\ last.op = "process_jobs"
    /\ \E i \in DOMAIN last.outcome :
          /\ last.outcome[i] = "missed"
          /\ now - last.due[i] > MisfireGraceMinutes
          /\ jobs[i].next_run_time > now

\* C13: the job of a daily schedule at HH:MM is started only for run times
\* the clock has reached; handled within the grace with no run in flight it
\* is started for its next_run_time, which then becomes HH:MM of the
\* following day; every next_run_time it takes is at HH:MM and later than
\* the one before.
C13_DailyFiresAtItsTime ==
    \A i \in DOMAIN jobs \cap DOMAIN schedules :
       schedules[i].schedule_type = "daily" =>
          LET at_time == schedules[i].hour * MinutesPerHour + schedules[i].minute
          IN /\ jobs[i].next_run_time % MinutesPerDay = at_time
             /\ \A e \in ClockInstances(i) :
                   /\ e.at <= now
                   /\ e.at < jobs[i].next_run_time
                   /\ e.at % MinutesPerDay = at_time
             /\ (last.op = "process_jobs" /\ i \in DOMAIN last.due) =>
                   /\ last.due[i] <= now
                   /\ jobs[i].next_run_time > last.due[i]
                   /\ jobs[i].next_run_time > now
                   /\ (/\ now - last.due[i] <= MisfireGraceMinutes
                       /\ last.outcome[i] # "max_instances") =>
                         /\ last.outcome[i] = "run"
                         /\ \E e \in ClockInstances(i) : e.at = last.due[i]
                         /\ jobs[i].next_run_time = last.due[i] + MinutesPerDay

C13_Witness ==
    /\ last.op = "process_jobs"
    /\ 1 \in DOMAIN last.due
    /\ schedules[1].schedule_type = "daily"
    /\ last.outcome[1] = "run"
    /\ now = last.due[1]
    /\ last.due[1] > MinutesPerDay
    /\ jobs[1].next_run_time = last.due[1] + MinutesPerDay

\* C14: the job of a monthly schedule with day_of_month d has every
\* next_run_time, and every run time it is started for, on day d of a month;
\* a month without a day d is passed over, and the next_run_time after a run
\* time is the first day d after it.
C14_MonthlySkipsShortMonths ==
    \A i \in DOMAIN jobs \cap DOMAIN schedules :
       schedules[i].schedule_type = "monthly" =>
          /\ DayOfMonth(jobs[i].next_run_time \div MinutesPerDay) = schedules[i].day_of_month
          /\ \A e \in ClockInstances(i) :
                DayOfMonth(e.at \div MinutesPerDay) = schedules[i].day_of_month
          /\ (last.op = "process_jobs" /\ i \in DOMAIN last.due) =>
                \A d \in ((last.due[i] \div MinutesPerDay) + 1) ..
                          ((jobs[i].next_run_time \div MinutesPerDay) - 1) :
                   /\ DayOfMonth(d) # schedules[i].day_of_month
                   /\ d > now \div MinutesPerDay =>
                         \A e \in ClockInstances(i) : e.at \div MinutesPerDay # d

\* a 30-day month (April) lies between the run time handled and the next one
C14_Witness ==
    /\ last.op = "process_jobs"
    /\ 1 \in DOMAIN last.due
    /\ schedules[1].schedule_type = "monthly"
    /\ schedules[1].day_of_month = 31
    /\ last.outcome[1] = "run"
    /\ \E d \in ((last.due[1] \div MinutesPerDay) + 1) ..
                 ((jobs[1].next_run_time \div MinutesPerDay) - 1) :
          DayOfMonth(d) = 30 /\ DayOfMonth(d + 1) = 1

\* the weekdays a weekly schedule names
ListedDays(s) ==
    {WeekdayNumber[StripLower(s.day_of_week[k])] :
        k \in {j \in 1..Len(s.day_of_week) : StripLower(s.day_of_week[j]) \in WeekdayNames}}

\* C15: the job add_schedule arms for a weekly schedule fires on exactly the
\* weekdays the schedule lists: its trigger's weekdays are the listed ones and
\* its next_run_time falls on one of them.
C15_WeeklyLandsOnListedDays ==
    (/\ last.op = "add_schedule"
     /\ last.schedule.schedule_type = "weekly"
     /\ last.id \in DOMAIN jobs) =>
        /\ jobs[last.id].trigger.day_of_week = ListedDays(last.schedule)
        /\ Weekday(jobs[last.id].next_run_time \div MinutesPerDay) \in ListedDays(last.schedule)

\* C16: a schedule that load_schedules cannot arm is the only one skipped:
\* the scheduler keeps running, the loop goes on, and when it is through every
\* other active schedule has its job, armed from the current time.
C16_StartSkipsOnlyFailing ==
    (last.op = "add_schedule" /\ last.caller = "load_schedules") =>
        /\ last.rejected => (SchedulerRunning /\ last.id \notin DOMAIN jobs)
        /\ app = "serving" =>
              \A i \in DOMAIN schedules :
                 (schedules[i].is_active /\ ~BuildTrigger(schedules[i]).raised) =>
                    /\ i \in DOMAIN jobs
                    /\ jobs[i].trigger = BuildTrigger(schedules[i]).trigger
                    /\ jobs[i].next_run_time >= now

C16_Witness ==
    /\ app = "serving"
    /\ last.op = "add_schedule"
    /\ last.caller = "load_schedules"
    /\ schedules[1].is_active
    /\ BuildTrigger(schedules[1]).raised
    /\ 1 \notin DOMAIN jobs
    /\ schedules[2].is_active
    /\ 2 \in DOMAIN jobs
    /\ jobs[2].next_run_time >= now

\* C17: when start has completed (the scheduler runs and load_schedules is
\* through), the jobs in the job store are exactly the active schedules: none
\* for a schedule that is inactive or deleted, one for each active schedule.
C17_StartArmsExactlyActive ==
    (/\ app = "serving"
     /\ \/ last.op = "start"
        \/ last.op = "add_schedule" /\ last.caller = "load_schedules") =>
        DOMAIN jobs = {i \in DOMAIN schedules : schedules[i].is_active}

\* C18: when shutdown has returned, no execution started by the clock is
\* still in flight.
C18_ShutdownWaitsForInFlight ==
    last.op = "shutdown" => \A e \in instances : e.origin # "clock"

\* C19: a call of shutdown raises nothing and leaves the scheduler stopped,
\* also when the scheduler was already stopped or never ran.
C19_ShutdownRepeatable ==
    last.op = "shutdown" =>
        /\ ~last.raised
        /\ ~last.running
        /\ ~SchedulerRunning

C19_Witness ==
    /\ last.op = "shutdown"
    /\ last.called
    /\ ~last.was_running
    /\ ~last.raised
    /\ app = "exited"

\* C20: after a delete request for a schedule, the job store holds no job
\* for its id.
C20_DeleteDisarms ==
    last.op = "delete_schedule" => last.id \notin DOMAIN jobs

\* the latest fire time of a trigger that is not after t
LatestFireAtOrBefore(trigger, t) ==
    LET d0 == t \div MinutesPerDay
        cand == {d \in 0..d0 : /\ d >= d0 - HorizonDays
                               /\ DayMatches(trigger, d)
                               /\ FireTimeOn(trigger, d) <= t}
        d == CHOOSE x \in cand : \A y \in cand : x >= y
    IN FireTimeOn(trigger, d)

\* C23: when the scheduler thread handles a job that has missed several fire
\* times and the latest of them is within the misfire grace, it starts one
\* execution, for that latest fire time, and the job's next_run_time becomes
\* a fire time after now.
C23_CoalescedOnce ==
    [][process_jobs =>
         \A i \in DueJobs :
            LET latest == LatestFireAtOrBefore(jobs[i].trigger, now)
                started == {e \in instances' \ instances : e.schedule_id = i}
            IN (/\ latest > jobs[i].next_run_time
                /\ now - latest <= MisfireGraceMinutes
                /\ ClockInstances(i) = {}) =>
                  /\ Cardinality(started) = 1
                  /\ \A e \in started : e.origin = "clock" /\ e.at = latest
                  /\ jobs'[i].next_run_time > now]_vars

C23_Witness ==
    /\ last.op = "process_jobs"
    /\ 1 \in DOMAIN last.outcome
    /\ last.outcome[1] = "run"
    /\ now - last.due[1] > MisfireGraceMinutes
    /\ \E e \in ClockInstances(1) : e.at > last.due[1] /\ now - e.at <= MisfireGraceMinutes
    /\ jobs[1].next_run_time > now

\* C24: a fire time of an active schedule that is due, by less than the
\* misfire grace, when load_schedules re-arms the schedule at start-up is
\* either started by the clock or still the job's next_run_time afterwards:
\* it is not lost, whichever of the scheduler thread and load_schedules comes
\* first.
C24_DueAtStartIsDispatched ==
    (/\ last.op = "add_schedule"
     /\ last.caller = "load_schedules"
     /\ last.schedule.is_active
     /\ ~last.rejected
     /\ last.before # <<>>
     /\ last.before[1].trigger = BuildTrigger(last.schedule).trigger
     /\ last.before[1].next_run_time <= now
     /\ now - last.before[1].next_run_time <= MisfireGraceMinutes) =>
        \/ \E e \in instances :
              /\ e.schedule_id = last.id
              /\ e.origin = "clock"
              /\ e.at = last.before[1].next_run_time
        \/ /\ last.id \in DOMAIN jobs
           /\ jobs[last.id].next_run_time <= now

\* C25: run-now leaves the job store as it is, from the request to the end
\* of its execution, and does not count as a running instance of the job: the
\* scheduler refuses a due job only for an execution the clock started.
C25_RunNowLeavesTriggers ==
    [][/\ last'.op = "run_schedule_now" => jobs' = jobs
       /\ (last'.op = "execute_task" /\ last'.origin = "run_now") => jobs' = jobs
       /\ last'.op = "process_jobs" =>
             \A i \in DOMAIN last'.outcome :
                last'.outcome[i] = "max_instances" =>
                   \E e \in instances : e.schedule_id = i /\ e.origin = "clock"]_vars

\* the job is started at its time while a run-now of the schedule is in flight
C25_Witness ==
    /\ last.op = "process_jobs"
    /\ \E i \in DOMAIN last.outcome :
          /\ last.outcome[i] = "run"
          /\ \E e \in instances : e.schedule_id = i /\ e.origin = "run_now"
          /\ \E e \in instances : e.schedule_id = i /\ e.origin = "clock" /\ e.at = last.due[i]

\* C26: for a schedule created active with a valid trigger, once every
\* toggle request has completed the schedule has a job iff is_active is true,
\* and is_active has been flipped once per completed request (it is true iff
\* their number is even), however the requests overlapped.
C26_TogglesSerialize ==
    requests = {} =>
        \A id \in DOMAIN schedules :
            /\ id \in DOMAIN jobs <=> schedules[id].is_active
            /\ schedules[id].is_active <=> Cardinality(ToggleRows(id)) % 2 = 0

\* C27: with the scheduler running, after a create, toggle or delete request
\* that returned success every schedule stored with is_active true has a job.
C27_ActiveImpliesArmed ==
    (/\ app = "serving"
     /\ \/ last.op = "add_schedule" /\ last.caller \in {"create_schedule", "toggle_schedule"}
        \/ last.op \in {"remove_schedule", "delete_schedule"}) =>
        \A i \in DOMAIN schedules : schedules[i].is_active => i \in DOMAIN jobs

\* C28: a create, toggle or delete request answered with an error status
\* leaves the schedules table and the job store as they were.
C28_ErrorLeavesStateUnchanged ==
    [][last'.op = "error_response" => (schedules' = schedules /\ jobs' = jobs)]_vars

\* C29: force-run counts a schedule as successfully executed only if its
\* call of execute_task wrote a row with status success.
C29_ReportedSuccessWasLogged ==
    last.op = "force_run_midnight" =>
        last.successful <=
            Cardinality({k \in 1..Len(last.entries) : last.entries[k].status = "success"})

\* rows of job_logs that execute_task wrote for a schedule
ExecutionRows(id) ==
    {k \in 1..Len(job_logs) :
        /\ job_logs[k].schedule_id = id
        /\ job_logs[k].message \notin {"created", "activated", "deactivated"}}

\* C30: midnight-check reports an active daily 00:00 schedule as missed
\* exactly when the Jakarta hour is past 0 and execute_task has written no row
\* for it since today's midnight; rows written by create and toggle do not
\* count as executions.
C30_MissedIffNoDispatchToday ==
    last.op = "check_midnight_schedules" =>
        \A i \in DOMAIN last.midnight_schedules :
            (schedules[i].is_active /\ schedules[i].schedule_type = "daily") =>
                (last.midnight_schedules[i].status = "missed" <=>
                    /\ last.hour > 0
                    /\ {k \in ExecutionRows(i) : k > YesterdayLogs} = {})

\* executions the clock has started for a schedule, finished or in flight
ClockDispatches(id) == Cardinality(ExecutionRows(id)) + Cardinality(ClockInstances(id))

\* C22: while add_schedule replaces the job of a schedule, with the
\* scheduler thread running in between its steps, the schedule has no job
\* between the removal and the addition and one job otherwise, and the one
\* fire time the clock passes is started at most once: not by the old job
\* and again by the new one.
C22_ReplaceNeverFiresTwice ==
    \A id \in DOMAIN schedules :
       /\ [kind |-> "add_schedule", id |-> id] \in requests => id \notin DOMAIN jobs
       /\ ClockDispatches(id) <= 1
       /\ (ClockDispatches(id) = 1 /\ id \in DOMAIN jobs) => jobs[id].next_run_time > now

\* the old job fired while start-up was under way, then the job was replaced
C22_Witness ==
    /\ last.op = "add_schedule"
    /\ last.caller = "load_schedules"
    /\ ClockDispatches(1) = 1
    /\ 1 \in DOMAIN jobs
    /\ jobs[1].next_run_time > FirstOccurrence

\* C21: while the scheduler runs, only shutdown stops it: a schedule that
\* cannot be armed, a task that raises, a log write that fails and a run-now
\* leave it running and leave the jobs of the other schedules as they are.
C21_OnlyShutdownStopsClock ==
    [][/\ (SchedulerRunning /\ last'.op # "shutdown") => SchedulerRunning'
       /\ last'.op \in {"execute_task", "run_schedule_now"} => jobs' = jobs
       /\ (last'.op = "add_schedule" /\ last'.rejected) =>
             \A i \in DOMAIN jobs \ {last'.id} :
                i \in DOMAIN jobs' /\ jobs'[i] = jobs[i]]_vars

\* a job is started after another schedule could not be armed and a task
\* of this run has failed
C21_Witness ==
    /\ last.op = "process_jobs"
    /\ app = "serving"
    /\ \E i \in DOMAIN last.outcome : last.outcome[i] = "run"
    /\ \E j \in DOMAIN schedules :
          schedules[j].is_active /\ BuildTrigger(schedules[j]).raised /\ j \notin DOMAIN jobs
    /\ \E k \in 1..Len(job_logs) : job_logs[k].status = "error"

====
